---- MODULE Spec2Model ----
(***************************************************************************)
(* Model of src/bin/symbols-check.py: the symbol-export auditor.  One run  *)
(* of main() is a sequential program; pc is its position.  Strings are     *)
(* sequences of one-character strings, so that comment stripping,          *)
(* trimming and tokenizing are computed character by character.            *)
(***************************************************************************)
EXTENDS Integers, Sequences, FiniteSets, TLC

VARIABLES
    pc,                 \* position of main()
    argv,               \* the required options present on the command line
    args,               \* argparse namespace (symbols_file, lib, nm), or NoArgs
    symbols_file,       \* the policy file on disk, as readlines() returns it
    output,             \* get_symbols: decoded stdout of the nm subprocess
    lib_symbols,
    line_no,            \* index of the next policy line of the for loop
    mandatory_symbols,
    optional_symbols,
    unknown_symbols,
    missing_symbols,
    print_no,           \* index of the next element of the running print loop
    stdout,             \* lines printed so far
    stderr,             \* diagnostics of the interpreter / argparse
    exit_code,          \* process exit status, Running until the process ends
    nm_invoked,         \* the nm subprocess has been spawned
    file_opened,        \* open(args.symbols_file) has been called
    \* src/scons/gallium.py, install_shared_library
    ipc,                \* position of install_shared_library()
    shlibsuffix,        \* env['SHLIBSUFFIX']
    sources,            \* the sources argument
    version_arg,        \* the version argument as the caller passed it
    version,            \* the local name version
    source_no,          \* index of the for loop over sources
    last,
    targets,
    \* src/scons/gallium.py, generate
    gpc,                \* position of generate()
    options,            \* build, debug, profile, ... as given to scons
    env,                \* the construction environment
    warnings,           \* deprecation warnings printed
    cppdefines

installVars == << ipc, shlibsuffix, sources, version_arg, version,
                  source_no, last, targets >>

generateVars == << gpc, options, env, warnings, cppdefines >>

vars == << pc, argv, args, symbols_file, output, lib_symbols, line_no,
           mandatory_symbols, optional_symbols, unknown_symbols,
           missing_symbols, print_no, stdout, stderr, exit_code,
           nm_invoked, file_opened, installVars, generateVars >>

----------------------------------------------------------------------------
(* Bounds of the model *)

MaxPolicyLines == 2
MaxNmLines == 2

----------------------------------------------------------------------------
(* Characters and strings *)

Whitespace == {" ", "\t", "\n"}

Min(S) == CHOOSE x \in S : \A y \in S : x <= y
Max(S) == CHOOSE x \in S : \A y \in S : x >= y

SeqsUpTo(S, n) == UNION {[1..k -> S] : k \in 0..n}

\* line.split('#')[0]
BeforeHash(s) ==
    LET hashes == {i \in 1..Len(s) : s[i] = "#"}
    IN  IF hashes = {} THEN s ELSE SubSeq(s, 1, Min(hashes) - 1)

\* str.strip()
Strip(s) ==
    LET solid == {i \in 1..Len(s) : s[i] \notin Whitespace}
    IN  IF solid = {} THEN << >> ELSE SubSeq(s, Min(solid), Max(solid))

\* str.split(): the maximal runs of non-whitespace characters, left to right
RECURSIVE SplitFrom(_, _, _)
SplitFrom(s, i, cur) ==
    IF i > Len(s)
    THEN IF cur = << >> THEN << >> ELSE << cur >>
    ELSE IF s[i] \in Whitespace
         THEN IF cur = << >>
              THEN SplitFrom(s, i + 1, << >>)
              ELSE << cur >> \o SplitFrom(s, i + 1, << >>)
         ELSE SplitFrom(s, i + 1, Append(cur, s[i]))

Split(s) == SplitFrom(s, 1, << >>)

\* str.splitlines(): cut at every "\n", no empty string after a final "\n"
RECURSIVE SplitLinesFrom(_, _, _)
SplitLinesFrom(s, i, cur) ==
    IF i > Len(s)
    THEN IF cur = << >> THEN << >> ELSE << cur >>
    ELSE IF s[i] = "\n"
         THEN << cur >> \o SplitLinesFrom(s, i + 1, << >>)
         ELSE SplitLinesFrom(s, i + 1, Append(cur, s[i]))

SplitLines(s) == SplitLinesFrom(s, 1, << >>)

\* x in list
In(x, list) == \E i \in 1..Len(list) : list[i] = x

----------------------------------------------------------------------------
(* Program constants *)

PLATFORM_SYMBOLS ==
    << << "_", "_", "b", "s", "s", "_", "e", "n", "d", "_", "_" >>,
       << "_", "_", "b", "s", "s", "_", "s", "t", "a", "r", "t", "_", "_" >>,
       << "_", "_", "b", "s", "s", "_", "s", "t", "a", "r", "t" >>,
       << "_", "_", "e", "n", "d", "_", "_" >>,
       << "_", "b", "s", "s", "_", "e", "n", "d", "_", "_" >>,
       << "_", "e", "d", "a", "t", "a" >>,
       << "_", "e", "n", "d" >>,
       << "_", "f", "i", "n", "i" >>,
       << "_", "i", "n", "i", "t" >> >>

qualifier_optional == << "(", "o", "p", "t", "i", "o", "n", "a", "l", ")" >>

Running == -1
NoOptions == [build |-> "release", debug |-> FALSE, profile |-> FALSE,
              platform |-> "linux", machine |-> "generic",
              embedded |-> FALSE, build_dir |-> << >>]
NoArgs == [symbols_file |-> "", lib |-> "", nm |-> ""]
RequiredArgs == {"symbols_file", "lib", "nm"}

----------------------------------------------------------------------------
(* Inputs: command lines, policy files, outputs of the nm tool *)

CommandLine == [symbols_file |-> "lib.sym", lib |-> "lib.so", nm |-> "nm"]

SymA == << "a" >>
SymB == << "b" >>
SymEnd == << "_", "e", "n", "d" >>

PolicyLines ==
    { << "a", "\n" >>,
      << " ", "b", " ", "#", "a", "\n" >>,
      qualifier_optional \o << "\t", "b", "\n" >>,
      << "#", " ", "c", "\n" >>,
      << "\n" >>,
      qualifier_optional \o << "\n" >>,
      << "(", "m", "a", "y", "b", "e", ")", " ", "a", " ", "#", " ", "c", "\n" >>,
      << " " >> \o qualifier_optional \o << " " >> \o qualifier_optional
          \o << " ", "a", " ", "#", "c", "\n" >> }

ExamplePolicy ==
    << << "a", "\n" >>,
       qualifier_optional \o << "\t", "b", "\n" >>,
       << "#", " ", "c", "\n" >>,
       << "\n" >> >>

PolicyFiles == SeqsUpTo(PolicyLines, MaxPolicyLines) \cup {ExamplePolicy}

NmLines ==
    { << "0", " ", "T", " ", "a" >>,
      << "0", " ", "T", " ", "b" >>,
      << "0", " ", "B", " ", "_", "e", "n", "d" >>,
      << "0", " ", "T" >>,
      << >>,
      << "0", " ", "T", " ", "a", " ", "b" >> }

RECURSIVE JoinLines(_)
JoinLines(ls) ==
    IF ls = << >> THEN << >>
    ELSE Head(ls) \o << "\n" >> \o JoinLines(Tail(ls))

NmOutputs == {JoinLines(ls) : ls \in SeqsUpTo(NmLines, MaxNmLines)}

----------------------------------------------------------------------------
(* Pure parts of the program *)

\* the unpacking letting extra fields pass
NmLineOk_AtLeastThree(line) == Len(Split(line)) >= 3

\* get_symbols, body of the for loop: (_, _, symbol_name) = line.split()
NmLineOk(line) == Len(Split(line)) = 3

NmSymbol(line) == Split(line)[3]

NmSymbols(lines) == [i \in 1..Len(lines) |-> NmSymbol(lines[i])]

\* the loop body without the qualifier check: any first token is accepted
ParseLine_AnyQualifier(raw) ==
    LET line == Strip(BeforeHash(raw))
        fields == Split(line)
    IN  IF line = << >>
        THEN [kind |-> "skip", text |-> << >>]
        ELSE IF Len(fields) = 1
        THEN [kind |-> "mandatory", text |-> fields[1]]
        ELSE IF Len(fields) = 2
        THEN IF fields[1] # qualifier_optional
             THEN [kind |-> "mandatory", text |-> fields[2]]
             ELSE [kind |-> "optional", text |-> fields[2]]
        ELSE [kind |-> "invalid_format", text |-> line]

\* the loop body without comment stripping
ParseLine_KeepComment(raw) ==
    LET line == Strip(raw)
        fields == Split(line)
    IN  IF line = << >>
        THEN [kind |-> "skip", text |-> << >>]
        ELSE IF Len(fields) = 1
        THEN [kind |-> "mandatory", text |-> fields[1]]
        ELSE IF Len(fields) = 2
        THEN IF fields[1] # qualifier_optional
             THEN [kind |-> "invalid_qualifier", text |-> fields[1]]
             ELSE [kind |-> "optional", text |-> fields[2]]
        ELSE [kind |-> "invalid_format", text |-> line]

\* the loop body reporting only the first field of a line with too many
ParseLine_FormatFirstField(raw) ==
    LET line == Strip(BeforeHash(raw))
        fields == Split(line)
    IN  IF line = << >>
        THEN [kind |-> "skip", text |-> << >>]
        ELSE IF Len(fields) = 1
        THEN [kind |-> "mandatory", text |-> fields[1]]
        ELSE IF Len(fields) = 2
        THEN IF fields[1] # qualifier_optional
             THEN [kind |-> "invalid_qualifier", text |-> fields[1]]
             ELSE [kind |-> "optional", text |-> fields[2]]
        ELSE [kind |-> "invalid_format", text |-> fields[1]]

\* main, body of the loop over the policy lines: what one line leads to
ParseLine(raw) ==
    LET line == Strip(BeforeHash(raw))
        fields == Split(line)
    IN  IF line = << >>
        THEN [kind |-> "skip", text |-> << >>]
        ELSE IF Len(fields) = 1
        THEN [kind |-> "mandatory", text |-> fields[1]]
        ELSE IF Len(fields) = 2
        THEN IF fields[1] # qualifier_optional
             THEN [kind |-> "invalid_qualifier", text |-> fields[1]]
             ELSE [kind |-> "optional", text |-> fields[2]]
        ELSE [kind |-> "invalid_format", text |-> line]

\* the filter without the mandatory list
UnknownSymbols_NoMandatory(lib, mandatory, optional) ==
    SelectSeq(lib, LAMBDA symbol :
        /\ ~In(symbol, optional)
        /\ ~In(symbol, PLATFORM_SYMBOLS))

\* the filter without the optional list
UnknownSymbols_NoOptional(lib, mandatory, optional) ==
    SelectSeq(lib, LAMBDA symbol :
        /\ ~In(symbol, mandatory)
        /\ ~In(symbol, PLATFORM_SYMBOLS))

\* the filter without the platform list
UnknownSymbols_NoPlatform(lib, mandatory, optional) ==
    SelectSeq(lib, LAMBDA symbol :
        /\ ~In(symbol, mandatory)
        /\ ~In(symbol, optional))

\* main, the loop that fills unknown_symbols
UnknownSymbols(lib, mandatory, optional) ==
    SelectSeq(lib, LAMBDA symbol :
        /\ ~In(symbol, mandatory)
        /\ ~In(symbol, optional)
        /\ ~In(symbol, PLATFORM_SYMBOLS))

\* the comprehension letting an optional declaration excuse the symbol
MissingSymbols_OptionalExcuses(mandatory, lib) ==
    SelectSeq(mandatory, LAMBDA sym :
        ~In(sym, lib) /\ ~In(sym, optional_symbols))

\* main, the comprehension that builds missing_symbols
MissingSymbols(mandatory, lib) ==
    SelectSeq(mandatory, LAMBDA sym : ~In(sym, lib))

\* the final exit looking at the unknown list alone
ExitStatus_UnknownOnly(unknown, missing) ==
    IF unknown # << >> THEN 1 ELSE 0

\* main, the final exit
ExitStatus(unknown, missing) ==
    IF unknown # << >> \/ missing # << >> THEN 1 ELSE 0

\* print(path + msg + text)
Printed(path, msg, text) == [path |-> path, msg |-> msg, text |-> text]

UnknownLine(symbol) == Printed(args.lib, ": unknown symbol exported: ", symbol)

MissingLine(symbol) == Printed(args.lib, ": missing symbol: ", symbol)

\* an exception swallowed: the traceback printed, the exit status 0
Uncaught_ExitZero ==
    /\ stderr' = Append(stderr, "Traceback")
    /\ exit_code' = 0
    /\ pc' = "done"

\* an uncaught exception: the interpreter prints a traceback and exits 1
Uncaught ==
    /\ stderr' = Append(stderr, "Traceback")
    /\ exit_code' = 1
    /\ pc' = "done"

----------------------------------------------------------------------------
(* The run *)

\* install_shared_library is not being called
InstallIdle ==
    /\ ipc = "idle"
    /\ shlibsuffix = ".so"
    /\ sources = << >>
    /\ version_arg = << >>
    /\ version = << >>
    /\ source_no = 0
    /\ last = << >>
    /\ targets = << >>

\* generate is not being called
GenerateIdle ==
    /\ gpc = "idle"
    /\ options = NoOptions
    /\ env = NoOptions
    /\ warnings = << >>
    /\ cppdefines = << >>

Init ==
    /\ pc = "parse_args"
    /\ argv \in SUBSET RequiredArgs
    /\ args = NoArgs
    /\ symbols_file \in PolicyFiles
    /\ output = << >>
    /\ lib_symbols = << >>
    /\ line_no = 0
    /\ mandatory_symbols = << >>
    /\ optional_symbols = << >>
    /\ unknown_symbols = << >>
    /\ missing_symbols = << >>
    /\ print_no = 0
    /\ stdout = << >>
    /\ stderr = << >>
    /\ exit_code = Running
    /\ nm_invoked = FALSE
    /\ file_opened = FALSE
    /\ InstallIdle
    /\ GenerateIdle

\* the steps in the other order: the policy file first
ParseArgs_PolicyFirst ==
    /\ pc = "parse_args"
    /\ IF argv = RequiredArgs
       THEN /\ args' = CommandLine
            /\ pc' = "open"
            /\ UNCHANGED << stderr, exit_code >>
       ELSE /\ stderr' = Append(stderr, "usage")
            /\ exit_code' = 2
            /\ pc' = "done"
            /\ UNCHANGED args
    /\ UNCHANGED << argv, symbols_file, output, lib_symbols, line_no,
                    mandatory_symbols, optional_symbols, unknown_symbols,
                    missing_symbols, print_no, stdout, nm_invoked,
                    file_opened >>
    /\ UNCHANGED << installVars, generateVars >>

\* --nm declared without required=True
ParseArgs_NmNotRequired ==
    /\ pc = "parse_args"
    /\ IF {"symbols_file", "lib"} \subseteq argv
       THEN /\ args' = CommandLine
            /\ pc' = "get_symbols"
            /\ UNCHANGED << stderr, exit_code >>
       ELSE /\ stderr' = Append(stderr, "usage")
            /\ exit_code' = 2
            /\ pc' = "done"
            /\ UNCHANGED args
    /\ UNCHANGED << argv, symbols_file, output, lib_symbols, line_no,
                    mandatory_symbols, optional_symbols, unknown_symbols,
                    missing_symbols, print_no, stdout, nm_invoked,
                    file_opened >>
    /\ UNCHANGED << installVars, generateVars >>

\* parser.parse_args(): all three arguments are required
ParseArgs ==
    /\ pc = "parse_args"
    /\ IF argv = RequiredArgs
       THEN /\ args' = CommandLine
            /\ pc' = "get_symbols"
            /\ UNCHANGED << stderr, exit_code >>
       ELSE /\ stderr' = Append(stderr, "usage")
            /\ exit_code' = 2
            /\ pc' = "done"
            /\ UNCHANGED args
    /\ UNCHANGED << argv, symbols_file, output, lib_symbols, line_no,
                    mandatory_symbols, optional_symbols, unknown_symbols,
                    missing_symbols, print_no, stdout, nm_invoked,
                    file_opened >>
    /\ UNCHANGED << installVars, generateVars >>

\* get_symbols: subprocess.check_output(...) returns the tool's stdout
RunNm ==
    /\ pc = "get_symbols"
    /\ nm_invoked' = TRUE
    /\ \E out \in NmOutputs : output' = out
    /\ pc' = "nm_output"
    /\ UNCHANGED << argv, args, symbols_file, lib_symbols, line_no,
                    mandatory_symbols, optional_symbols, unknown_symbols,
                    missing_symbols, print_no, stdout, stderr, exit_code,
                    file_opened >>
    /\ UNCHANGED << installVars, generateVars >>

\* get_symbols: the tool is not found or exits non-zero
RunNmFails ==
    /\ pc = "get_symbols"
    /\ nm_invoked' = TRUE
    /\ Uncaught
    /\ UNCHANGED << argv, args, symbols_file, output, lib_symbols, line_no,
                    mandatory_symbols, optional_symbols, unknown_symbols,
                    missing_symbols, print_no, stdout, file_opened >>
    /\ UNCHANGED << installVars, generateVars >>

\* get_symbols: the loop over output.splitlines(), and the return
ParseNmOutput ==
    /\ pc = "nm_output"
    /\ LET lines == SplitLines(output)
       IN  IF \A i \in 1..Len(lines) : NmLineOk(lines[i])
           THEN /\ lib_symbols' = NmSymbols(lines)
                /\ output' = << >>
                /\ pc' = "open"
                /\ UNCHANGED << stderr, exit_code >>
           ELSE /\ Uncaught
                /\ UNCHANGED << lib_symbols, output >>
    /\ UNCHANGED << argv, args, symbols_file, line_no, mandatory_symbols,
                    optional_symbols, unknown_symbols, missing_symbols,
                    print_no, stdout, nm_invoked, file_opened >>
    /\ UNCHANGED << installVars, generateVars >>

\* with open(args.symbols_file) as symbols_file: ... readlines()
OpenPolicy ==
    /\ pc = "open"
    /\ file_opened' = TRUE
    /\ line_no' = 1
    /\ pc' = "read"
    /\ UNCHANGED << argv, args, symbols_file, output, lib_symbols,
                    mandatory_symbols, optional_symbols, unknown_symbols,
                    missing_symbols, print_no, stdout, stderr, exit_code,
                    nm_invoked >>
    /\ UNCHANGED << installVars, generateVars >>

\* open() raises (no such file, no permission)
OpenPolicyFails ==
    /\ pc = "open"
    /\ file_opened' = TRUE
    /\ Uncaught
    /\ UNCHANGED << argv, args, symbols_file, output, lib_symbols, line_no,
                    mandatory_symbols, optional_symbols, unknown_symbols,
                    missing_symbols, print_no, stdout, nm_invoked >>
    /\ UNCHANGED << installVars, generateVars >>

\* one iteration of the loop over the policy lines
ReadLine ==
    /\ pc = "read"
    /\ line_no <= Len(symbols_file)
    /\ LET p == ParseLine(symbols_file[line_no])
       IN  CASE p.kind = "skip" ->
                  /\ line_no' = line_no + 1
                  /\ UNCHANGED << pc, mandatory_symbols, optional_symbols,
                                  stdout, exit_code >>
             [] p.kind = "mandatory" ->
                  /\ mandatory_symbols' = Append(mandatory_symbols, p.text)
                  /\ line_no' = line_no + 1
                  /\ UNCHANGED << pc, optional_symbols, stdout, exit_code >>
             [] p.kind = "optional" ->
                  /\ optional_symbols' = Append(optional_symbols, p.text)
                  /\ line_no' = line_no + 1
                  /\ UNCHANGED << pc, mandatory_symbols, stdout, exit_code >>
             [] p.kind = "invalid_format" ->
                  /\ stdout' = Append(stdout,
                         Printed(args.symbols_file, ": invalid format: ", p.text))
                  /\ exit_code' = 1
                  /\ pc' = "done"
                  /\ UNCHANGED << line_no, mandatory_symbols,
                                  optional_symbols >>
             [] p.kind = "invalid_qualifier" ->
                  /\ stdout' = Append(stdout,
                         Printed(args.symbols_file, ": invalid qualifier: ", p.text))
                  /\ exit_code' = 1
                  /\ pc' = "done"
                  /\ UNCHANGED << line_no, mandatory_symbols,
                                  optional_symbols >>
    /\ UNCHANGED << argv, args, symbols_file, output, lib_symbols, unknown_symbols,
                    missing_symbols, print_no, stderr, nm_invoked,
                    file_opened >>
    /\ UNCHANGED << installVars, generateVars >>

\* the loop over the policy lines ends; the file is closed
EndOfPolicy ==
    /\ pc = "read"
    /\ line_no > Len(symbols_file)
    /\ pc' = "audit_unknown"
    /\ UNCHANGED << argv, args, symbols_file, output, lib_symbols, line_no,
                    mandatory_symbols, optional_symbols, unknown_symbols,
                    missing_symbols, print_no, stdout, stderr, exit_code,
                    nm_invoked, file_opened >>
    /\ UNCHANGED << installVars, generateVars >>

\* the loop over lib_symbols that fills unknown_symbols
AuditUnknown ==
    /\ pc = "audit_unknown"
    /\ unknown_symbols' =
           UnknownSymbols(lib_symbols, mandatory_symbols, optional_symbols)
    /\ pc' = "audit_missing"
    /\ UNCHANGED << argv, args, symbols_file, output, lib_symbols, line_no,
                    mandatory_symbols, optional_symbols, missing_symbols,
                    print_no, stdout, stderr, exit_code, nm_invoked,
                    file_opened >>
    /\ UNCHANGED << installVars, generateVars >>

\* the missing list computed, the unknown-symbol print loop left out
AuditMissing_SkipUnknown ==
    /\ pc = "audit_missing"
    /\ missing_symbols' = MissingSymbols(mandatory_symbols, lib_symbols)
    /\ print_no' = 1
    /\ pc' = "print_missing"
    /\ UNCHANGED << argv, args, symbols_file, output, lib_symbols, line_no,
                    mandatory_symbols, optional_symbols, unknown_symbols,
                    stdout, stderr, exit_code, nm_invoked, file_opened >>
    /\ UNCHANGED << installVars, generateVars >>

\* missing_symbols = [sym for sym in mandatory_symbols if ...]
AuditMissing ==
    /\ pc = "audit_missing"
    /\ missing_symbols' = MissingSymbols(mandatory_symbols, lib_symbols)
    /\ print_no' = 1
    /\ pc' = "print_unknown"
    /\ UNCHANGED << argv, args, symbols_file, output, lib_symbols, line_no,
                    mandatory_symbols, optional_symbols, unknown_symbols,
                    stdout, stderr, exit_code, nm_invoked, file_opened >>
    /\ UNCHANGED << installVars, generateVars >>

\* for symbol in unknown_symbols: print(...)
PrintUnknown ==
    /\ pc = "print_unknown"
    /\ IF print_no <= Len(unknown_symbols)
       THEN /\ stdout' = Append(stdout, UnknownLine(unknown_symbols[print_no]))
            /\ print_no' = print_no + 1
            /\ UNCHANGED pc
       ELSE /\ print_no' = 1
            /\ pc' = "print_missing"
            /\ UNCHANGED stdout
    /\ UNCHANGED << argv, args, symbols_file, output, lib_symbols, line_no,
                    mandatory_symbols, optional_symbols, unknown_symbols,
                    missing_symbols, stderr, exit_code, nm_invoked,
                    file_opened >>
    /\ UNCHANGED << installVars, generateVars >>

\* for symbol in missing_symbols: print(...)
PrintMissing ==
    /\ pc = "print_missing"
    /\ IF print_no <= Len(missing_symbols)
       THEN /\ stdout' = Append(stdout, MissingLine(missing_symbols[print_no]))
            /\ print_no' = print_no + 1
            /\ UNCHANGED pc
       ELSE /\ print_no' = 0
            /\ pc' = "exit"
            /\ UNCHANGED stdout
    /\ UNCHANGED << argv, args, symbols_file, output, lib_symbols, line_no,
                    mandatory_symbols, optional_symbols, unknown_symbols,
                    missing_symbols, stderr, exit_code, nm_invoked,
                    file_opened >>
    /\ UNCHANGED << installVars, generateVars >>

\* if unknown_symbols or missing_symbols: exit(1) / exit(0)
Exit ==
    /\ pc = "exit"
    /\ exit_code' = ExitStatus(unknown_symbols, missing_symbols)
    /\ pc' = "done"
    /\ UNCHANGED << argv, args, symbols_file, output, lib_symbols, line_no,
                    mandatory_symbols, optional_symbols, unknown_symbols,
                    missing_symbols, print_no, stdout, stderr, nm_invoked,
                    file_opened >>
    /\ UNCHANGED << installVars, generateVars >>

Next ==
    \/ ParseArgs
    \/ RunNm
    \/ RunNmFails
    \/ ParseNmOutput
    \/ OpenPolicy
    \/ OpenPolicyFails
    \/ ReadLine
    \/ EndOfPolicy
    \/ AuditUnknown
    \/ AuditMissing
    \/ PrintUnknown
    \/ PrintMissing
    \/ Exit

Spec == Init /\ [][Next]_vars

----------------------------------------------------------------------------
(* Vocabulary of the properties, stated without the program's operators *)

Range(list) == {list[i] : i \in 1..Len(list)}

KthSmallest(S, k) == CHOOSE x \in S : Cardinality({y \in S : y < x}) = k - 1

\* the subsequence of list at the indices in keep, in list order
Restrict(list, keep) ==
    [k \in 1..Cardinality(keep) |-> list[KthSmallest(keep, k)]]

IsPrefix(s, t) == Len(s) <= Len(t) /\ s = SubSeq(t, 1, Len(s))

\* the command line was complete: the run works on the named files
ArgsGiven == argv = RequiredArgs

\* every line of the policy file has been read and accepted
PolicyParsed == line_no > Len(symbols_file)

\* unknown_symbols and missing_symbols have both been computed
AuditDone ==
    \/ pc \in {"print_unknown", "print_missing", "exit"}
    \/ pc = "done" /\ PolicyParsed

ExpectedUnknown ==
    Restrict(lib_symbols,
        {i \in 1..Len(lib_symbols) :
            lib_symbols[i] \notin Range(mandatory_symbols)
                \cup Range(optional_symbols) \cup Range(PLATFORM_SYMBOLS)})

ExpectedMissing ==
    Restrict(mandatory_symbols,
        {i \in 1..Len(mandatory_symbols) :
            mandatory_symbols[i] \notin Range(lib_symbols)})

----------------------------------------------------------------------------
\* C1: once the audit has run, unknown_symbols is exactly the subsequence of
\* the exported symbols that are in none of mandatory_symbols,
\* optional_symbols and PLATFORM_SYMBOLS, in export order and with the
\* multiplicity of the export list.
C1_UnknownIsFilteredExports ==
    AuditDone => unknown_symbols = ExpectedUnknown

\* a symbol exported twice and not allowed is reported twice, while the
\* policy declares another symbol
C1_Witness ==
    /\ pc = "done"
    /\ PolicyParsed
    /\ lib_symbols = << SymB, SymB >>
    /\ mandatory_symbols = << SymA >>
    /\ unknown_symbols = << SymB, SymB >>

C3_ExitCodeReflectsReport ==
    (pc = "done" /\ PolicyParsed) =>
        /\ exit_code \in {0, 1}
        /\ exit_code = 0 <=>
               (unknown_symbols = << >> /\ missing_symbols = << >>)
        /\ exit_code = 0 <=> (ExpectedUnknown = << >> /\ ExpectedMissing = << >>)

\* a compliant library: the mandatory symbol and a platform symbol exported
C3_Witness ==
    /\ pc = "done"
    /\ PolicyParsed
    /\ mandatory_symbols = << SymA >>
    /\ lib_symbols = << SymA, SymEnd >>
    /\ exit_code = 0

----------------------------------------------------------------------------
(* Policy lines as the format describes them: the text before the first   *)
(* "#", cut into maximal runs of non-whitespace characters                 *)

Visible(raw) ==
    LET hashes == {i \in 1..Len(raw) : raw[i] = "#"}
    IN  SubSeq(raw, 1, Cardinality({i \in 1..Len(raw) :
                                       \A h \in hashes : i < h}))

TokenStarts(s) ==
    {i \in 1..Len(s) : s[i] \notin Whitespace /\ (i = 1 \/ s[i - 1] \in Whitespace)}

\* the token that starts at i runs up to the next whitespace character
TokenAt(s, i) ==
    LET blanks == {j \in i..Len(s) : s[j] \in Whitespace}
    IN  SubSeq(s, i, IF blanks = {} THEN Len(s) ELSE Min(blanks) - 1)

NumTokens(s) == Cardinality(TokenStarts(s))

Token(s, k) == TokenAt(s, KthSmallest(TokenStarts(s), k))

MalformedLine(raw) ==
    LET v == Visible(raw)
        n == NumTokens(v)
    IN  \/ n >= 3
        \/ n = 2 /\ Token(v, 1) # qualifier_optional

MalformedPolicy ==
    \E i \in 1..Len(symbols_file) : MalformedLine(symbols_file[i])

DeclaresMandatory(raw) == NumTokens(Visible(raw)) = 1

DeclaresOptional(raw) ==
    LET v == Visible(raw)
    IN  NumTokens(v) = 2 /\ Token(v, 1) = qualifier_optional

\* the symbols the first n lines of the file declare mandatory / optional
DeclaredMandatory(file, n) ==
    LET idx == {i \in 1..n : DeclaresMandatory(file[i])}
    IN  [k \in 1..Cardinality(idx) |->
            Token(Visible(file[KthSmallest(idx, k)]), 1)]

DeclaredOptional(file, n) ==
    LET idx == {i \in 1..n : DeclaresOptional(file[i])}
    IN  [k \in 1..Cardinality(idx) |->
            Token(Visible(file[KthSmallest(idx, k)]), 2)]

ReportLine(l) ==
    l.msg \in {": unknown symbol exported: ", ": missing symbol: "}

FormatErrorLine(l) ==
    /\ l.path = CommandLine.symbols_file
    /\ l.msg \in {": invalid format: ", ": invalid qualifier: "}

----------------------------------------------------------------------------
\* C4: in a run with a complete command line, if some line of the policy
\* file has three or more tokens after comment stripping, or two tokens the
\* first of which is not "(optional)", then the audit is never reached, no
\* unknown-symbol or missing-symbol line is ever printed, and the process
\* ends with exit code 1.
C4_MalformedPolicyIsFatal ==
    (ArgsGiven /\ MalformedPolicy) =>
        /\ ~AuditDone
        /\ \A i \in 1..Len(stdout) : ~ReportLine(stdout[i])
        /\ pc = "done" => exit_code = 1

\* a valid line precedes the line with the unrecognized qualifier, the
\* library exports an undeclared symbol, and the run stopped at that line
C4_Witness ==
    /\ pc = "done"
    /\ Len(symbols_file) = 2
    /\ DeclaresMandatory(symbols_file[1])
    /\ MalformedLine(symbols_file[2])
    /\ lib_symbols = << SymB >>
    /\ line_no = 2
    /\ exit_code = 1
    /\ Len(stdout) = 1

\* C5: policy parsing classifies each line by the text before its first
\* "#": no token, nothing is added; one token (whatever it is, "(optional)"
\* included), it is appended to mandatory_symbols; two tokens with first
\* "(optional)", the second is appended to optional_symbols only; reading
\* stops at no such line.  The
\* file a / (optional) b / # comment / blank gives mandatory = <<a>>,
\* optional = <<b>>.
C5_PolicyLineClassification ==
    line_no >= 1 =>
        /\ mandatory_symbols = DeclaredMandatory(symbols_file, line_no - 1)
        /\ optional_symbols = DeclaredOptional(symbols_file, line_no - 1)
        /\ (pc = "done" /\ line_no <= Len(symbols_file)) =>
               MalformedLine(symbols_file[line_no])
        /\ (symbols_file = ExamplePolicy /\ PolicyParsed) =>
               /\ mandatory_symbols = << SymA >>
               /\ optional_symbols = << SymB >>

\* the example file has been read to its end
C5_Witness ==
    /\ symbols_file = ExamplePolicy
    /\ pc = "audit_unknown"
    /\ PolicyParsed
    /\ mandatory_symbols = << SymA >>
    /\ optional_symbols = << SymB >>

----------------------------------------------------------------------------
\* C6 as stated: the tool is invoked only after the policy file has been
\* read and parsed without error, and a run with a malformed policy file
\* ends with the format-error message and exit code 1.
C6_PolicyBeforeTool ==
    /\ nm_invoked => (file_opened /\ PolicyParsed)
    /\ (ArgsGiven /\ MalformedPolicy /\ pc = "done") =>
           /\ exit_code = 1
           /\ stdout # << >>
           /\ FormatErrorLine(stdout[Len(stdout)])

\* C6 amended: the steps run in the order parse arguments, get_symbols,
\* policy loading, audit.  The policy file is opened only after the tool
\* has been invoked and its whole output parsed; a run with a malformed
\* policy file ends with exit code 1 in every case, with the format-error
\* message as its only output when the file came to be read, and with an
\* uncaught exception and nothing on stdout when the tool failed, its
\* output was malformed or the file could not be opened.
C6_ToolBeforePolicy ==
    /\ file_opened => (nm_invoked /\ output = << >>)
    /\ (pc = "done" /\ ArgsGiven /\ MalformedPolicy) =>
           /\ exit_code = 1
           /\ IF line_no >= 1
              THEN /\ Len(stdout) = 1
                   /\ FormatErrorLine(stdout[1])
                   /\ stderr = << >>
              ELSE /\ stdout = << >>
                   /\ stderr = << "Traceback" >>

\* the policy file is malformed and the tool failed first: the run ended
\* with a traceback, the policy file never opened
C6_Witness ==
    /\ pc = "done"
    /\ MalformedPolicy
    /\ nm_invoked
    /\ ~file_opened
    /\ output = << >>
    /\ stderr = << "Traceback" >>
    /\ stdout = << >>
    /\ exit_code = 1

----------------------------------------------------------------------------
ExpectedReport ==
    [k \in 1..Len(ExpectedUnknown) |->
        [path |-> CommandLine.lib, msg |-> ": unknown symbol exported: ",
         text |-> ExpectedUnknown[k]]]
    \o
    [k \in 1..Len(ExpectedMissing) |->
        [path |-> CommandLine.lib, msg |-> ": missing symbol: ",
         text |-> ExpectedMissing[k]]]

\* C7: in a run that completes the audit, stdout is at every moment a
\* prefix of: one unknown-symbol line per element of the unknown list, in
\* list order, then one missing-symbol line per element of the missing
\* list, in list order; the process has an exit code only once all of these
\* lines are printed.
C7_ReportOrder ==
    PolicyParsed =>
        /\ IsPrefix(stdout, ExpectedReport)
        /\ exit_code # Running => stdout = ExpectedReport

\* an unknown-symbol line followed by a missing-symbol line, then the exit
C7_Witness ==
    /\ pc = "done"
    /\ PolicyParsed
    /\ Len(stdout) = 2
    /\ stdout[1] = [path |-> "lib.so", msg |-> ": unknown symbol exported: ",
                    text |-> SymB]
    /\ stdout[2] = [path |-> "lib.so", msg |-> ": missing symbol: ",
                    text |-> SymA]

----------------------------------------------------------------------------
(* The whole run as a function of the policy file and the exported         *)
(* symbols, for comparing the runs on two policy files                     *)

RECURSIVE LoadPolicy(_, _, _, _)
LoadPolicy(file, i, mandatory, optional) ==
    IF i > Len(file)
    THEN [ok |-> TRUE, mandatory |-> mandatory, optional |-> optional,
          stdout |-> << >>]
    ELSE LET p == ParseLine(file[i])
         IN  CASE p.kind = "skip" ->
                    LoadPolicy(file, i + 1, mandatory, optional)
               [] p.kind = "mandatory" ->
                    LoadPolicy(file, i + 1, Append(mandatory, p.text), optional)
               [] p.kind = "optional" ->
                    LoadPolicy(file, i + 1, mandatory, Append(optional, p.text))
               [] p.kind = "invalid_format" ->
                    [ok |-> FALSE, mandatory |-> mandatory,
                     optional |-> optional,
                     stdout |-> << Printed(CommandLine.symbols_file,
                                           ": invalid format: ", p.text) >>]
               [] p.kind = "invalid_qualifier" ->
                    [ok |-> FALSE, mandatory |-> mandatory,
                     optional |-> optional,
                     stdout |-> << Printed(CommandLine.symbols_file,
                                           ": invalid qualifier: ", p.text) >>]

RunReport(file, lib) ==
    LET policy == LoadPolicy(file, 1, << >>, << >>)
        unknown == UnknownSymbols(lib, policy.mandatory, policy.optional)
        missing == MissingSymbols(policy.mandatory, lib)
    IN  IF ~policy.ok
        THEN [stdout |-> policy.stdout, exit_code |-> 1]
        ELSE [stdout |->
                  [k \in 1..Len(unknown) |->
                      Printed(CommandLine.lib, ": unknown symbol exported: ",
                              unknown[k])]
                  \o [k \in 1..Len(missing) |->
                      Printed(CommandLine.lib, ": missing symbol: ",
                              missing[k])],
              exit_code |-> ExitStatus(unknown, missing)]

\* the policy file with its line i written twice
Repeated(file, i) ==
    SubSeq(file, 1, i) \o << file[i] >> \o SubSeq(file, i + 1, Len(file))

\* the run the model performs is the run RunReport computes
RunReportAgrees ==
    (pc = "done" /\ line_no >= 1) =>
        RunReport(symbols_file, lib_symbols) =
            [stdout |-> stdout, exit_code |-> exit_code]

\* C8: repeating a policy line that declares a symbol (mandatory or
\* optional) gives the same printed report and the same exit code as the
\* file without the repetition.
C8_DuplicatesCollapse ==
    (pc = "done" /\ line_no >= 1) =>
        \A i \in 1..Len(symbols_file) :
            (DeclaresMandatory(symbols_file[i])
                \/ DeclaresOptional(symbols_file[i])) =>
            RunReport(Repeated(symbols_file, i), lib_symbols) =
                [stdout |-> stdout, exit_code |-> exit_code]

----------------------------------------------------------------------------
DeclaredOptionalSet ==
    Range(DeclaredOptional(symbols_file, Len(symbols_file)))

DeclaredMandatorySet ==
    Range(DeclaredMandatory(symbols_file, Len(symbols_file)))

\* C9 as stated: a symbol the policy file declares with "(optional)" is in
\* neither the unknown list nor the missing list, also when another line
\* declares it without a qualifier.
C9_OptionalNeverFlagged ==
    AuditDone =>
        \A s \in DeclaredOptionalSet :
            s \notin Range(unknown_symbols) /\ s \notin Range(missing_symbols)

\* C9 amended: a symbol the policy file declares with "(optional)" is never
\* in the unknown list, exported or not; it is in the missing list exactly
\* when another line of the file declares it without a qualifier and it is
\* not exported.
C9_OptionalNeverUnknown ==
    AuditDone =>
        \A s \in DeclaredOptionalSet :
            /\ s \notin Range(unknown_symbols)
            /\ s \in Range(missing_symbols) <=>
                   (s \in DeclaredMandatorySet /\ s \notin Range(lib_symbols))

\* b is declared optional only and is exported next to the undeclared a:
\* a is unknown, b is not flagged
C9_Witness ==
    /\ pc = "done"
    /\ DeclaredOptionalSet = {SymB}
    /\ DeclaredMandatorySet = {}
    /\ lib_symbols = << SymB, SymA >>
    /\ unknown_symbols = << SymA >>
    /\ missing_symbols = << >>

----------------------------------------------------------------------------
(* The tool's output as its contract describes it: lines ended by "\n",    *)
(* each line cut into whitespace-separated fields                          *)

OutputLines(out) ==
    LET nl == {i \in 1..Len(out) : out[i] = "\n"}
        n == Cardinality(nl)
        first(k) == IF k = 1 THEN 1 ELSE KthSmallest(nl, k - 1) + 1
        ended == [k \in 1..n |->
                     SubSeq(out, first(k), KthSmallest(nl, k) - 1)]
        rest == SubSeq(out, first(n + 1), Len(out))
    IN  IF rest = << >> THEN ended ELSE Append(ended, rest)

----------------------------------------------------------------------------
\* C11 as stated: every run ends with exit code 0 or 1, 0 only for a
\* compliant library and 1 for every other outcome, a usage error included.
C11_ExitZeroOrOne ==
    pc = "done" =>
        exit_code = IF ArgsGiven /\ PolicyParsed /\ ExpectedReport = << >>
                    THEN 0 ELSE 1

\* C11 amended: every run ends with exit code 0, 1 or 2: 0 only for a
\* compliant library, 2 for a usage error (a required argument missing),
\* and 1 for every other outcome (non-compliant report, policy parse error,
\* tool invocation failure, tool output error, unreadable policy file).
C11_ExitZeroOneOrTwo ==
    /\ pc = "done" =>
           exit_code = IF ~ArgsGiven THEN 2
                       ELSE IF PolicyParsed /\ ExpectedReport = << >> THEN 0
                       ELSE 1
    /\ pc # "done" => exit_code = Running

\* --lib is missing: argparse ended the run with status 2
C11_Witness ==
    /\ pc = "done"
    /\ argv = {"symbols_file", "nm"}
    /\ exit_code = 2
    /\ stderr = << "usage" >>

\* C12: when a required argument is missing, the run goes from argument
\* parsing straight to its end with a nonzero exit code: the tool is never
\* invoked, the policy file never opened, no list is computed and nothing
\* is printed on stdout.
C12_UsageErrorBeforeAnyAccess ==
    argv # RequiredArgs =>
        /\ pc \in {"parse_args", "done"}
        /\ ~nm_invoked
        /\ ~file_opened
        /\ lib_symbols = << >>
        /\ unknown_symbols = << >>
        /\ missing_symbols = << >>
        /\ stdout = << >>
        /\ pc = "done" => exit_code \notin {0, Running}

\* only --nm is missing and the policy file has two lines: the run is over
C12_Witness ==
    /\ argv = {"symbols_file", "lib"}
    /\ Len(symbols_file) = 2
    /\ pc = "done"
    /\ exit_code # 0
    /\ ~nm_invoked
    /\ ~file_opened

----------------------------------------------------------------------------
\* needle occurs in hay as a contiguous run
Contains(hay, needle) ==
    \E i \in 0..(Len(hay) - Len(needle)) :
        SubSeq(hay, i + 1, i + Len(needle)) = needle

\* the line as it stands in the file, without its line terminator
RawContent(raw) ==
    IF raw # << >> /\ raw[Len(raw)] = "\n"
    THEN SubSeq(raw, 1, Len(raw) - 1) ELSE raw

\* the text before the first "#", from its first token to its last
TrimmedVisible(raw) ==
    LET v == Visible(raw)
        solid == {i \in 1..Len(v) : v[i] \notin Whitespace}
    IN  [k \in 1..(Max(solid) - Min(solid) + 1) |-> v[Min(solid) + k - 1]]

\* the run stopped at policy line line_no
StoppedAtLine == pc = "done" /\ line_no >= 1 /\ line_no <= Len(symbols_file)

----------------------------------------------------------------------------
\* C14: once the audit has run, every unknown symbol is exported and not
\* mandatory, every missing symbol is mandatory and not exported, and no
\* symbol is in both lists.
C14_UnknownAndMissingDisjoint ==
    AuditDone =>
        /\ \A u \in Range(unknown_symbols) :
              u \in Range(lib_symbols) /\ u \notin Range(mandatory_symbols)
        /\ \A m \in Range(missing_symbols) :
              m \in Range(mandatory_symbols) /\ m \notin Range(lib_symbols)
        /\ Range(unknown_symbols) \cap Range(missing_symbols) = {}

\* both lists are non-empty: b and a platform symbol are exported, a is
\* mandatory
C14_Witness ==
    /\ pc = "exit"
    /\ mandatory_symbols = << SymA >>
    /\ lib_symbols = << SymB, SymEnd >>
    /\ unknown_symbols = << SymB >>
    /\ missing_symbols = << SymA >>

----------------------------------------------------------------------------
(***************************************************************************)
(* src/scons/gallium.py: install_shared_library(env, sources, version) on  *)
(* a platform whose SHLIBSUFFIX is not ".dll".  The ".dll" branch consists *)
(* of SCons calls only (FindIxes, Install) and is not modelled.            *)
(***************************************************************************)

MaxSources == 2
MaxVersion == 2

\* symbols-check.py is not running
MainIdle ==
    /\ pc = "idle"
    /\ argv = {}
    /\ args = NoArgs
    /\ symbols_file = << >>
    /\ output = << >>
    /\ lib_symbols = << >>
    /\ line_no = 0
    /\ mandatory_symbols = << >>
    /\ optional_symbols = << >>
    /\ unknown_symbols = << >>
    /\ missing_symbols = << >>
    /\ print_no = 0
    /\ stdout = << >>
    /\ stderr = << >>
    /\ exit_code = Running
    /\ nm_invoked = FALSE
    /\ file_opened = FALSE

mainVars == << pc, argv, args, symbols_file, output, lib_symbols, line_no,
               mandatory_symbols, optional_symbols, unknown_symbols,
               missing_symbols, print_no, stdout, stderr, exit_code,
               nm_invoked, file_opened >>

\* the libraries a caller installs, and the components of a version
LibNames == { << "l", "i", "b", "x" >>, << "l", "i", "b", "y" >> }
VersionNumbers == {1, 2}

Digits == << "0", "1", "2", "3", "4", "5", "6", "7", "8", "9" >>

\* str(n), for the one-digit version components used here
Str(n) == << Digits[n + 1] >>

\* '.'.join(parts)
RECURSIVE JoinDot(_)
JoinDot(parts) ==
    IF Len(parts) = 0 THEN << >>
    ELSE IF Len(parts) = 1 THEN parts[1]
    ELSE parts[1] \o << "." >> \o JoinDot(Tail(parts))

\* '.'.join((str(source),) + version)
TargetName(source, ver) == JoinDot(<< source >> \o ver)

\* env.InstallAs(os.path.join(target_dir, target_name), source)
InstallAsNode(name, source) ==
    [builder |-> "InstallAs", dir |-> "lib", name |-> name, source |-> source]

\* env.Command(os.path.join(target_dir, target_name), last, action), whose
\* action is symlink(): os.symlink(os.path.basename(source), target)
SymlinkNode(name, from) ==
    [builder |-> "symlink", dir |-> "lib", name |-> name,
     source |-> from[1].name]

InitInstall ==
    /\ MainIdle
    /\ GenerateIdle
    /\ ipc = "start"
    /\ shlibsuffix \in {".so", ".dylib"}
    /\ sources \in SeqsUpTo(LibNames, MaxSources)
    /\ version_arg \in SeqsUpTo(VersionNumbers, MaxVersion)
    /\ version = version_arg
    /\ source_no = 0
    /\ last = << >>
    /\ targets = << >>

\* targets = []; version = tuple(map(str, version)); the else branch
InstallStart ==
    /\ ipc = "start"
    /\ shlibsuffix # ".dll"
    /\ targets' = << >>
    /\ version' = [i \in 1..Len(version) |-> Str(version[i])]
    /\ source_no' = 1
    /\ ipc' = "for"
    /\ UNCHANGED << shlibsuffix, sources, version_arg, last >>
    /\ UNCHANGED << mainVars, generateVars >>

\* for source in sources: the versioned file is installed
InstallSource ==
    /\ ipc = "for"
    /\ source_no <= Len(sources)
    /\ LET source == sources[source_no]
           node == InstallAsNode(TargetName(source, version), source)
       IN  /\ last' = << node >>
           /\ targets' = targets \o << node >>
    /\ ipc' = "while"
    /\ UNCHANGED << shlibsuffix, sources, version_arg, version, source_no >>
    /\ UNCHANGED << mainVars, generateVars >>

\* while len(version): one component dropped, one symlink declared
InstallSymlink ==
    /\ ipc = "while"
    /\ Len(version) > 0
    /\ LET shorter == SubSeq(version, 1, Len(version) - 1)
           node == SymlinkNode(TargetName(sources[source_no], shorter), last)
       IN  /\ version' = shorter
           /\ last' = << node >>
           /\ targets' = targets \o << node >>
    /\ UNCHANGED << ipc, shlibsuffix, sources, version_arg, source_no >>
    /\ UNCHANGED << mainVars, generateVars >>

\* the while loop ends; the for loop takes the next source
InstallNextSource ==
    /\ ipc = "while"
    /\ Len(version) = 0
    /\ source_no' = source_no + 1
    /\ ipc' = "for"
    /\ UNCHANGED << shlibsuffix, sources, version_arg, version, last,
                    targets >>
    /\ UNCHANGED << mainVars, generateVars >>

\* return targets
InstallReturn ==
    /\ ipc = "for"
    /\ source_no > Len(sources)
    /\ ipc' = "returned"
    /\ UNCHANGED << shlibsuffix, sources, version_arg, version, source_no,
                    last, targets >>
    /\ UNCHANGED << mainVars, generateVars >>

NextInstall ==
    \/ InstallStart
    \/ InstallSource
    \/ InstallSymlink
    \/ InstallNextSource
    \/ InstallReturn

SpecInstall == InitInstall /\ [][NextInstall]_vars

----------------------------------------------------------------------------
\* source.v1. ... .vk for the first k components of the version argument
RECURSIVE VersionedName(_, _)
VersionedName(source, k) ==
    IF k = 0 THEN source
    ELSE VersionedName(source, k - 1)
             \o << "." >> \o << Digits[version_arg[k] + 1] >>

\* what the call is to declare for one source: the file source.v1. ... .vn,
\* then a symlink for each shorter prefix, each made from the one before
ExpectedTargetsOf(source) ==
    LET n == Len(version_arg)
    IN  [k \in 1..(n + 1) |->
            IF k = 1
            THEN [builder |-> "InstallAs", dir |-> "lib",
                  name |-> VersionedName(source, n), source |-> source]
            ELSE [builder |-> "symlink", dir |-> "lib",
                  name |-> VersionedName(source, n + 1 - k),
                  source |-> VersionedName(source, n + 2 - k)]]

RECURSIVE ExpectedTargets(_)
ExpectedTargets(i) ==
    IF i = 0 THEN << >>
    ELSE ExpectedTargets(i - 1) \o ExpectedTargetsOf(sources[i])

\* C15: when install_shared_library returns on a non-.dll platform, the
\* target list holds, for every source of the list in turn, the installed
\* file source.v1. ... .vn followed by one symlink per shorter version
\* prefix down to the bare name, each symlink made from the target created
\* just before it: n+1 targets per source.
C15_EverySourceVersioned ==
    ipc = "returned" =>
        /\ targets = ExpectedTargets(Len(sources))
        /\ Len(targets) = (Len(version_arg) + 1) * Len(sources)

\* the same for the first source of the list alone
FirstSourceVersioned ==
    (ipc = "returned" /\ Len(sources) >= 1) =>
        IsPrefix(ExpectedTargetsOf(sources[1]), targets)

----------------------------------------------------------------------------
(***************************************************************************)
(* src/scons/gallium.py: generate(env), from the backwards-compatibility   *)
(* block to the first preprocessor defines.                                *)
(***************************************************************************)

Builds == {"debug", "checked", "profile", "release"}

OptionSets ==
    [build : Builds, debug : BOOLEAN, profile : BOOLEAN,
     platform : {"linux", "windows"}, machine : {"generic", "x86"},
     embedded : BOOLEAN, build_dir : {<< >>}]

InitGenerate ==
    /\ MainIdle
    /\ InstallIdle
    /\ gpc = "compat"
    /\ options \in OptionSets
    /\ env = options
    /\ warnings = << >>
    /\ cppdefines = << >>

\* env['build'] after the two deprecation checks, made in this order
CompatBuild(build, debug, profile) ==
    IF build # "debug" THEN build
    ELSE IF profile THEN "profile"
    ELSE IF ~debug THEN "release"
    ELSE "debug"

\* Backwards compatability with the debug= profile= options
CompatOptions ==
    /\ gpc = "compat"
    /\ env' = [env EXCEPT
                 !.build = CompatBuild(env.build, env.debug, env.profile)]
    /\ warnings' =
           IF env.build = "debug"
           THEN warnings
                    \o (IF ~env.debug THEN << "debug option is deprecated" >>
                        ELSE << >>)
                    \o (IF env.profile
                        THEN << "profile option is deprecated" >>
                        ELSE << >>)
           ELSE warnings
    /\ gpc' = "portability"
    /\ UNCHANGED << options, cppdefines >>
    /\ UNCHANGED << mainVars, installVars >>

\* the portability block with 'checked' left out of the first test
PortableFlags_DebugOnly(e) ==
    IF e.build = "debug"
    THEN [e EXCEPT !.debug = TRUE, !.profile = FALSE]
    ELSE IF e.build = "profile"
    THEN [e EXCEPT !.debug = FALSE, !.profile = TRUE]
    ELSE IF e.build = "release"
    THEN [e EXCEPT !.debug = FALSE, !.profile = FALSE]
    ELSE e

\* Backwards portability with older sconscripts: the three tests on
\* env['build'], which none of them changes
PortableFlags(e) ==
    IF e.build \in {"debug", "checked"}
    THEN [e EXCEPT !.debug = TRUE, !.profile = FALSE]
    ELSE IF e.build = "profile"
    THEN [e EXCEPT !.debug = FALSE, !.profile = TRUE]
    ELSE IF e.build = "release"
    THEN [e EXCEPT !.debug = FALSE, !.profile = FALSE]
    ELSE e

BackwardsPortability ==
    /\ gpc = "portability"
    /\ env' = PortableFlags(env)
    /\ gpc' = "build_dir"
    /\ UNCHANGED << options, warnings, cppdefines >>
    /\ UNCHANGED << mainVars, installVars >>

\* build_dir = os.path.join('build', build_subdir), as its pieces
BuildDir(e) ==
    << "build", "/" >>
        \o (IF e.embedded THEN << "embedded-" >> ELSE << >>)
        \o << e.platform >>
        \o (IF e.machine # "generic" THEN << "-", e.machine >> ELSE << >>)
        \o (IF e.build # "release" THEN << "-", e.build >> ELSE << >>)

SetBuildDir ==
    /\ gpc = "build_dir"
    /\ env' = [env EXCEPT !.build_dir = BuildDir(env)]
    /\ gpc' = "cppdefines"
    /\ UNCHANGED << options, warnings, cppdefines >>
    /\ UNCHANGED << mainVars, installVars >>

\* C preprocessor options, up to the PROFILE define
FirstDefines(e) ==
    << "__STDC_CONSTANT_MACROS", "__STDC_FORMAT_MACROS",
       "__STDC_LIMIT_MACROS", "HAVE_SCONS" >>
        \o (IF e.build \in {"debug", "checked"}
            THEN << "DEBUG" >> ELSE << "NDEBUG" >>)
        \o (IF e.build = "profile" THEN << "PROFILE" >> ELSE << >>)

CppDefines ==
    /\ gpc = "cppdefines"
    /\ cppdefines' = FirstDefines(env)
    /\ gpc' = "defined"
    /\ UNCHANGED << options, env, warnings >>
    /\ UNCHANGED << mainVars, installVars >>

NextGenerate ==
    \/ CompatOptions
    \/ BackwardsPortability
    \/ SetBuildDir
    \/ CppDefines

SpecGenerate == InitGenerate /\ [][NextGenerate]_vars

----------------------------------------------------------------------------
AfterCompatibility == gpc \in {"build_dir", "cppdefines", "defined"}

FlagsFollowBuild ==
    /\ AfterCompatibility =>
           /\ env.debug <=> env.build \in {"debug", "checked"}
           /\ env.profile <=> env.build = "profile"
           /\ ~(env.debug /\ env.profile)
    /\ gpc = "defined" =>
           /\ Cardinality({i \in 1..Len(cppdefines) :
                              cppdefines[i] \in {"DEBUG", "NDEBUG"}}) = 1
           /\ env.debug <=> "DEBUG" \in Range(cppdefines)

\* C16 as stated: after the backwards-compatibility block env['debug'] is
\* true exactly for build debug or checked, env['profile'] exactly for
\* build profile, never both, the defines hold exactly one of DEBUG and
\* NDEBUG (DEBUG exactly when env['debug']); build=debug given with debug
\* false becomes release, and build=debug given with profile true becomes
\* profile.
C16_CompatibilityAsStated ==
    /\ FlagsFollowBuild
    /\ AfterCompatibility =>
           /\ (options.build = "debug" /\ ~options.debug) =>
                  env.build = "release"
           /\ (options.build = "debug" /\ options.profile) =>
                  env.build = "profile"

\* C16 amended: the same, except that build=debug given with debug false
\* becomes release only when profile is false too; build=debug given with
\* profile true becomes profile whatever debug is; every other input keeps
\* its build.
C16_CompatibilityProfileWins ==
    /\ FlagsFollowBuild
    /\ AfterCompatibility =>
           /\ (options.build = "debug" /\ ~options.debug /\ ~options.profile)
                  => env.build = "release"
           /\ (options.build = "debug" /\ options.profile) =>
                  env.build = "profile"
           /\ (options.build # "debug"
                  \/ (options.debug /\ ~options.profile)) =>
                  env.build = options.build

\* build=debug given with debug false and profile true: the build became
\* profile, with NDEBUG and PROFILE defined and both warnings printed
C16_Witness ==
    /\ gpc = "defined"
    /\ options.build = "debug"
    /\ ~options.debug
    /\ options.profile
    /\ env.build = "profile"
    /\ env.profile
    /\ ~env.debug
    /\ "NDEBUG" \in Range(cppdefines)
    /\ "PROFILE" \in Range(cppdefines)
    /\ Len(warnings) = 2

====
